---- MODULE Spec2Model ----
(***************************************************************************)
(* Theatre API service: tickets, reservations, availability, access        *)
(* control and play filtering, modelled from theatre/models.py,            *)
(* theatre/serializers.py, theatre/views.py and theatre/urls.py.           *)
(***************************************************************************)
EXTENDS Integers, Sequences, FiniteSets, TLC

VARIABLES
    theatre_halls,      \* TheatreHall table: id -> [rows, seats_in_row]
    performances,       \* Performance table: id -> [play, theatre_hall]
    reservations,       \* committed Reservation rows: [id, user]
    tickets,            \* committed Ticket rows: [id, row, seat, performance, reservation]
    nextReservationId,  \* the Reservation id sequence
    worker,             \* per worker process: the reservation request it is serving
    last,               \* history: facts about the last request served in one piece
    catalog,            \* Genre and Actor tables: the ids stored, by viewset name
    response,           \* the last HTTP request and the response it got
    plays,              \* Play table: id -> [title, actors, genres, image]
    listing             \* the last play list request and the rows it returned (a bag)

vars == <<theatre_halls, performances, reservations, tickets, nextReservationId, worker, last,
          catalog, response, plays, listing>>

\* what a reservation request leaves alone
catalog_vars == <<catalog, response, plays, listing>>

(***************************************************************************)
(* Bounds                                                                  *)
(***************************************************************************)
MaxTickets == 2         \* longest ticket list of a request
MaxReservations == 2    \* Reservation ids handed out
MaxPlays == 2           \* plays in the table that is listed
MaxNewRows == 1         \* rows the HTTP requests add to the fixtures, all tables together

Users == {"alice", "bob"}
Workers == {1, 2}

(***************************************************************************)
(* models.py                                                               *)
(***************************************************************************)
\* mutant: the seats of one row taken for the hall's capacity
capacity_seats_in_row(hall) == hall.seats_in_row

\* TheatreHall.capacity
capacity(hall) == hall.rows * hall.seats_in_row

\* getattr(theatre_hall, name) for the two names validate_ticket reads
hall_attr(hall, name) == IF name = "rows" THEN hall.rows ELSE capacity(hall)

\* the case list of Ticket.validate_ticket, in order
ticket_attrs(row, seat) ==
    << [value |-> row, name |-> "row", hall_attr |-> "rows"],
       [value |-> seat, name |-> "seat", hall_attr |-> "capacity"] >>

\* Ticket.validate_ticket: the name of the first field out of range, or "ok"
validate_ticket(row, seat, hall) ==
    LET cases == ticket_attrs(row, seat)
        bad == {k \in 1..Len(cases) :
                  ~(1 <= cases[k].value /\ cases[k].value <= hall_attr(hall, cases[k].hall_attr))}
    IN IF bad = {} THEN "ok"
       ELSE cases[CHOOSE k \in bad : \A j \in bad : k <= j].name

\* mutant: no uniqueness constraint on (row, seat, performance)
unique_together_none(attrs, rows) == {}

\* Ticket.Meta.unique_together: the rows of `rows` holding the triple of `attrs`
unique_together(attrs, rows) ==
    {t \in rows : t.row = attrs.row /\ t.seat = attrs.seat
                  /\ t.performance = attrs.performance}

\* Ticket.clean
clean(attrs) ==
    validate_ticket(attrs.row, attrs.seat, theatre_halls[performances[attrs.performance].theatre_hall])

\* Ticket.save's full_clean over the rows the transaction sees: clean() raises
\* the REST framework's ValidationError, validate_unique Django's own
full_clean(attrs, visible) ==
    IF clean(attrs) # "ok" THEN "ValidationError"
    ELSE IF unique_together(attrs, visible) # {} THEN "DjangoValidationError"
    ELSE "ok"

\* the INSERT of Ticket.save under the unique index, against the committed
\* rows and the transaction's own
insert_ticket(attrs, visible) ==
    IF unique_together(attrs, visible) # {} THEN "IntegrityError" ELSE "ok"

\* Ticket.save with nothing running in between
save(attrs, committed, pending) ==
    LET c == full_clean(attrs, committed \cup pending)
    IN IF c # "ok" THEN c ELSE insert_ticket(attrs, committed \cup pending)

\* the row Ticket.objects.create(reservation=reservation, **ticket_data) writes
Ticket(rid, k, attrs) ==
    [id |-> <<rid, k>>, row |-> attrs.row, seat |-> attrs.seat,
     performance |-> attrs.performance, reservation |-> rid]

\* mutant: the reservation is not given the caller as its user
Reservation_other_user(rid, user) == [id |-> rid, user |-> CHOOSE u \in Users : u # user]

\* the row Reservation.objects.create(user=...) writes
Reservation(rid, user) == [id |-> rid, user |-> user]

(***************************************************************************)
(* serializers.py                                                          *)
(***************************************************************************)
\* TicketSerializer run_validation: the unique-together validator of the
\* model serializer, then TicketSerializer.validate
TicketSerializer_validate(attrs, committed) ==
    IF attrs.performance \notin DOMAIN performances THEN "does_not_exist"
    ELSE IF unique_together(attrs, committed) # {} THEN "unique"
    ELSE validate_ticket(attrs.row, attrs.seat,
                         theatre_halls[performances[attrs.performance].theatre_hall])

\* ReservationSerializer.tickets: many=True, allow_empty=False
is_valid(specs, committed) ==
    /\ Len(specs) > 0
    /\ \A k \in 1..Len(specs) : TicketSerializer_validate(specs[k], committed) = "ok"

\* the loop of ReservationSerializer.create from ticket k on: the exception
\* that ends it (or "none") and the rows written so far
RECURSIVE create_tickets(_, _, _, _, _)
create_tickets(specs, k, rid, committed, pending) ==
    IF k > Len(specs) THEN [exc |-> "none", at |-> 0, rows |-> pending]
    ELSE LET r == save(specs[k], committed, pending)
         IN IF r # "ok" THEN [exc |-> r, at |-> k, rows |-> pending]
            ELSE create_tickets(specs, k + 1, rid, committed,
                                pending \cup {Ticket(rid, k, specs[k])})

\* mutant: no transaction around the rows, each one stays once written
atomic_exit_no_rollback(table, written, exc) == table \cup written

\* leaving `with transaction.atomic()`: commit, or roll back on an exception
atomic_exit(table, written, exc) ==
    IF exc = "none" THEN table \cup written ELSE table

\* the response status of the REST framework's exception handler
exception_handler(exc) ==
    IF exc = "none" THEN 201
    ELSE IF exc = "ValidationError" THEN 400
    ELSE 500

(***************************************************************************)
(* views.py                                                                *)
(***************************************************************************)
\* mutant: the queryset is not filtered by the caller
get_queryset_all(user) == reservations

\* ReservationViewSet.get_queryset: filter(user=request.user)
get_queryset(user) == {r \in reservations : r.user = user}

\* ReservationViewSet list: ReservationListSerializer over the queryset, each
\* reservation with its tickets (related_name "tickets")
reservation_list(user) ==
    {[id |-> r.id, tickets |-> {t \in tickets : t.reservation = r.id}] : r \in get_queryset(user)}

\* PerformanceViewSet.get_queryset, action list: the join of Performance with
\* its tickets (LEFT OUTER JOIN, one row per ticket, one NULL row if none)
performance_join(p) ==
    LET ts == {t \in tickets : t.performance = p}
    IN IF ts = {} THEN {[performance |-> p, ticket |-> <<>>]}
       ELSE {[performance |-> p, ticket |-> t.id] : t \in ts}

\* mutant: COUNT(*) over the joined rows
Count_all(rows) == Cardinality(rows)

\* Count("tickets"): the joined rows whose ticket is not NULL
Count(rows) == Cardinality({r \in rows : r.ticket # <<>>})

\* ticket_available = F(rows) * F(seats_in_row) - Count("tickets")
ticket_available(p) ==
    LET hall == theatre_halls[performances[p].theatre_hall]
    IN hall.rows * hall.seats_in_row - Count(performance_join(p))

(***************************************************************************)
(* Inputs and initial state                                                *)
(***************************************************************************)
\* the halls and performances on sale: hall 1 has 2 rows of 1 seat (capacity
\* 2), hall 2 has 1 row of 1 seat
FixtureHalls == (1 :> [rows |-> 2, seats_in_row |-> 1]) @@ (2 :> [rows |-> 1, seats_in_row |-> 1])
FixturePerformances == (1 :> [play |-> 1, theatre_hall |-> 1]) @@ (2 :> [play |-> 1, theatre_hall |-> 2])
FixturePlays == (1 :> [title |-> <<"a">>, actors |-> {}, genres |-> {}, image |-> FALSE])

\* ticket specs tried: around (row 1, seat 1) of performance 1 one coordinate
\* at a time, below, inside and above the hall's range, and the one seat of
\* performance 2
TicketInputs ==
    {t \in [row : 0..3, seat : 0..3, performance : DOMAIN FixturePerformances] :
        \/ t.performance = 1 /\ (t.row = 1 \/ t.seat = 1)
        \/ t.performance = 2 /\ t.row = 1 /\ t.seat = 1}

\* ticket lists of the requests served in one piece
Requests == UNION {[1..n -> TicketInputs] : n \in 0..MaxTickets}

\* ticket specs and lists of the requests that race
RaceInputs == {t \in TicketInputs : t.performance = 1 /\ t.row = 1 /\ t.seat \in 1..2}
RaceRequests == UNION {[1..n -> RaceInputs] : n \in 1..MaxTickets}

NoSpec == [row |-> 0, seat |-> 0, performance |-> 0]

\* a worker between requests, holding the response of its last one
Idle(status, exc, rid, at, spec, holders) ==
    [pc |-> "idle", user |-> "", tickets |-> <<>>, k |-> 0, errors |-> FALSE,
     rows |-> {}, status |-> status, exc |-> exc, rid |-> rid, at |-> at, spec |-> spec,
     holders |-> holders]

\* history of a request: the persisted reservations holding the seat of spec s
Holders(s, committed) ==
    {t.reservation : t \in {x \in committed : x.row = s.row /\ x.seat = s.seat
                                               /\ x.performance = s.performance}}

\* a worker that has served no request since the last one served in one piece
NoResponse == Idle(0, "none", 0, 0, NoSpec, {})

\* the request a history names (none: status 0)
\*   last:   user, len (of the ticket list), status, rid (the Reservation id
\*           taken, 0 if none), bad (positions of the specs invalid on
\*           arrival), dup (positions of the specs repeating an earlier one),
\*           single (the spec of a one-ticket list), created (the list of a
\*           request that succeeded)
\*   worker: status, exc, rid, at (position of the ticket that failed), spec
\*           (that ticket), holders (the persisted reservations holding its seat)

\* history of a request: is spec s out of the hall's range or already sold,
\* judged on the rows persisted when the request arrives
InvalidSpec(s, committed) ==
    \/ s.performance \notin DOMAIN performances
    \/ LET hall == theatre_halls[performances[s.performance].theatre_hall]
       IN \/ s.row < 1 \/ s.row > hall.rows
          \/ s.seat < 1 \/ s.seat > hall.rows * hall.seats_in_row
          \/ \E t \in committed : t.row = s.row /\ t.seat = s.seat /\ t.performance = s.performance

\* no request served in one piece since the last one that raced
NoLast == [user |-> "", len |-> 0, status |-> 0, rid |-> 0,
           bad |-> {}, dup |-> {}, single |-> NoSpec, created |-> <<>>]

CatalogViewSets == {"genres", "actors", "theatre_halls", "plays", "performance"}
ViewSets == CatalogViewSets \cup {"reservations"}

\* no HTTP request made yet
NoRequest == [cred |-> "", viewset |-> "", route |-> "", method |-> "", pk |-> 0,
              valid |-> FALSE, status |-> 0, data |-> {}]

\* no play list requested yet
NoListing == [title |-> <<>>, actors |-> <<>>, genres |-> <<>>, status |-> 0, rows |-> <<>>]

Init ==
    /\ theatre_halls = FixtureHalls
    /\ performances = FixturePerformances
    /\ reservations = {}
    /\ tickets = {}
    /\ nextReservationId = 1
    /\ worker = [w \in Workers |-> NoResponse]
    /\ last = NoLast
    /\ catalog = [v \in CatalogViewSets |-> {}]
    /\ response = NoRequest
    /\ plays = FixturePlays
    /\ listing = NoListing

(***************************************************************************)
(* A reservation request served with no other request in flight:           *)
(* CreateModelMixin.create -> is_valid -> perform_create ->                *)
(* ReservationSerializer.create                                            *)
(***************************************************************************)
\* ReservationViewSet.perform_create: serializer.save(user=request.user) after
\* is_valid, with the tables as they are left
perform_create(user, specs) ==
    LET rid == nextReservationId
        begun == is_valid(specs, tickets)
        run == IF begun
               THEN create_tickets(specs, 1, rid, tickets, {})
               ELSE [exc |-> "ValidationError", at |-> 0, rows |-> {}]
    IN [exc |-> run.exc,
        status |-> exception_handler(run.exc),
        rid |-> IF begun THEN rid ELSE 0,
        tickets |-> atomic_exit(tickets, run.rows, run.exc),
        reservations |-> atomic_exit(reservations,
                             IF begun THEN {Reservation(rid, user)} ELSE {}, run.exc),
        nextReservationId |-> IF begun THEN rid + 1 ELSE rid]

ReservationCreate(user, specs) ==
    /\ \A w \in Workers : worker[w].pc = "idle"
    /\ last = NoLast /\ response = NoRequest
    /\ nextReservationId <= MaxReservations
    /\ LET done == perform_create(user, specs)
       IN /\ tickets' = done.tickets
          /\ reservations' = done.reservations
          /\ nextReservationId' = done.nextReservationId
          /\ last' = [user |-> user, len |-> Len(specs),
                      status |-> done.status,
                      rid |-> done.rid,
                      bad |-> {k \in 1..Len(specs) : InvalidSpec(specs[k], tickets)},
                      dup |-> {k \in 1..Len(specs) : \E j \in 1..(k - 1) : specs[j] = specs[k]},
                      single |-> IF Len(specs) = 1 THEN specs[1] ELSE NoSpec,
                      created |-> IF done.exc = "none" THEN specs ELSE <<>>]
    /\ UNCHANGED <<theatre_halls, performances, worker, catalog_vars>>

(***************************************************************************)
(* The same request served step by step by a worker process, other         *)
(* workers' steps in between                                               *)
(***************************************************************************)
\* the request arrives
Start(w, user, specs) ==
    /\ worker[w].pc = "idle"
    /\ nextReservationId <= MaxReservations
    /\ worker' = [worker EXCEPT ![w] =
                    [pc |-> "is_valid", user |-> user, tickets |-> specs, k |-> 1,
                     errors |-> FALSE, rows |-> {}, status |-> 0, exc |-> "none",
                     rid |-> 0, at |-> 0, spec |-> NoSpec, holders |-> {}]]
    /\ UNCHANGED <<theatre_halls, performances, reservations, tickets, nextReservationId, last, catalog_vars>>

\* serializer.is_valid: the k-th ticket's validators run against the
\* committed rows; after the last one the request is rejected or goes on
Validate(w) ==
    LET me == worker[w]
        err == me.errors \/ TicketSerializer_validate(me.tickets[me.k], tickets) # "ok"
    IN /\ me.pc = "is_valid"
       /\ worker' = [worker EXCEPT ![w] =
                       IF me.k < Len(me.tickets) THEN [me EXCEPT !.k = me.k + 1, !.errors = err]
                       ELSE IF err THEN Idle(400, "ValidationError", 0, 0, NoSpec, {})
                       ELSE [me EXCEPT !.pc = "create", !.errors = FALSE]]
       /\ UNCHANGED <<theatre_halls, performances, reservations, tickets, nextReservationId, last, catalog_vars>>

\* transaction.atomic() is entered and Reservation.objects.create runs
Create(w) ==
    LET me == worker[w]
    IN /\ me.pc = "create"
       /\ worker' = [worker EXCEPT ![w] =
                       [me EXCEPT !.pc = "full_clean", !.k = 1, !.rid = nextReservationId]]
       /\ nextReservationId' = nextReservationId + 1
       /\ UNCHANGED <<theatre_halls, performances, reservations, tickets, last, catalog_vars>>

\* an exception leaves the atomic block: the transaction's rows are dropped
Abort(w, exc) ==
    LET me == worker[w]
    IN /\ tickets' = atomic_exit(tickets, me.rows, exc)
       /\ reservations' = atomic_exit(reservations, {Reservation(me.rid, me.user)}, exc)
       /\ worker' = [worker EXCEPT ![w] =
                       Idle(exception_handler(exc), exc, me.rid, me.k, me.tickets[me.k],
                            Holders(me.tickets[me.k], tickets))]

\* Ticket.save, first half: full_clean over committed rows and the
\* transaction's own
FullClean(w) ==
    LET me == worker[w]
        c == full_clean(me.tickets[me.k], tickets \cup me.rows)
    IN /\ me.pc = "full_clean"
       /\ IF c = "ok"
          THEN /\ worker' = [worker EXCEPT ![w] = [me EXCEPT !.pc = "save"]]
               /\ UNCHANGED <<reservations, tickets>>
          ELSE Abort(w, c)
       /\ UNCHANGED <<theatre_halls, performances, nextReservationId, last, catalog_vars>>

\* the worker whose uncommitted row holds the triple w wants to insert
BlockedBy(w) ==
    {v \in Workers \ {w} : unique_together(worker[w].tickets[worker[w].k], worker[v].rows) # {}}

\* Ticket.save, second half: the INSERT. It waits while another transaction
\* holds the same triple uncommitted; after the last ticket the block is left
\* and the transaction commits
Save(w) ==
    LET me == worker[w]
        r == insert_ticket(me.tickets[me.k], tickets \cup me.rows)
        written == me.rows \cup {Ticket(me.rid, me.k, me.tickets[me.k])}
    IN /\ me.pc = "save"
       /\ BlockedBy(w) = {}
       /\ IF r # "ok" THEN Abort(w, r)
          ELSE IF me.k < Len(me.tickets)
          THEN /\ worker' = [worker EXCEPT ![w] =
                               [me EXCEPT !.pc = "full_clean", !.k = me.k + 1, !.rows = written]]
               /\ UNCHANGED <<reservations, tickets>>
          ELSE /\ tickets' = atomic_exit(tickets, written, "none")
               /\ reservations' = atomic_exit(reservations, {Reservation(me.rid, me.user)}, "none")
               /\ worker' = [worker EXCEPT ![w] = Idle(201, "none", me.rid, 0, NoSpec, {})]
       /\ UNCHANGED <<theatre_halls, performances, nextReservationId, last, catalog_vars>>

\* two transactions each wait for a row of the other: the database ends one
\* of them with an error
Deadlock(w) ==
    /\ worker[w].pc = "save"
    /\ \E v \in BlockedBy(w) : worker[v].pc = "save" /\ w \in BlockedBy(v)
    /\ Abort(w, "OperationalError")
    /\ UNCHANGED <<theatre_halls, performances, nextReservationId, last, catalog_vars>>

\* the history of the last request is dropped before the next one is served
Forget ==
    /\ last # NoLast \/ response # NoRequest \/ listing # NoListing
    /\ last' = NoLast
    /\ response' = NoRequest
    /\ listing' = NoListing
    /\ UNCHANGED <<theatre_halls, performances, reservations, tickets, nextReservationId, worker,
                   catalog, plays>>

(***************************************************************************)
(* Access control and the viewsets' handlers (views.py)                    *)
(***************************************************************************)
AnonymousUser == "AnonymousUser"
Credentials == {"none", "invalid", "alice", "admin"}
Methods == {"GET", "POST", "PUT", "DELETE"}
Routes == {"list", "detail", "upload-image"}
SAFE_METHODS == {"GET"}

\* User.is_staff of the accounts
is_staff(user) == user = "admin"

\* the authentication class of the settings: no credential is the anonymous
\* user, a credential that does not verify ends the request
authenticate(cred) ==
    IF cred = "none" THEN [exc |-> "none", user |-> AnonymousUser]
    ELSE IF cred = "invalid" THEN [exc |-> "AuthenticationFailed", user |-> AnonymousUser]
    ELSE [exc |-> "none", user |-> cred]

\* the default permission class of the settings: read for authenticated
\* users, everything for administrators
DEFAULT_PERMISSION_CLASSES == "IsAdminOrIfAuthenticatedReadOnly"

\* ReservationViewSet.permission_classes
ReservationViewSet_permission_classes == "IsAuthenticated"

\* mutant: the image upload open to every authenticated user
upload_image_permission_IsAuthenticated == "IsAuthenticated"

\* @action(..., permission_classes=(IsAdminUser,)) of PlayViewSet.upload_image
upload_image_permission_classes == "IsAdminUser"

\* the permission class in force on a route of a viewset
get_permissions(viewset, route) ==
    IF route = "upload-image" THEN upload_image_permission_classes
    ELSE IF viewset = "reservations" THEN ReservationViewSet_permission_classes
    ELSE DEFAULT_PERMISSION_CLASSES

\* has_permission of the permission classes
has_permission(class, user, method) ==
    CASE class = "IsAuthenticated" -> user # AnonymousUser
      [] class = "IsAdminUser" -> user # AnonymousUser /\ is_staff(user)
      [] class = "IsAdminOrIfAuthenticatedReadOnly" ->
            \/ method \in SAFE_METHODS /\ user # AnonymousUser
            \/ user # AnonymousUser /\ is_staff(user)
      [] OTHER -> TRUE

\* the actions each viewset class has, from its mixins
mixins(viewset) ==
    CASE viewset \in {"genres", "actors", "theatre_halls"} -> {"create", "list"}
      [] viewset = "plays" -> {"create", "list", "retrieve", "upload_image"}
      [] viewset = "performance" -> {"create", "list", "retrieve", "update", "destroy"}
      [] viewset = "reservations" -> {"list", "create"}

\* the router's mapping of a route and method to an action of the viewset
\* ("none": the method is not allowed there)
action_map(viewset, route, method) ==
    LET a == CASE route = "list" /\ method = "GET" -> "list"
               [] route = "list" /\ method = "POST" -> "create"
               [] route = "detail" /\ method = "GET" -> "retrieve"
               [] route = "detail" /\ method = "PUT" -> "update"
               [] route = "detail" /\ method = "DELETE" -> "destroy"
               [] route = "upload-image" /\ method = "POST" -> "upload_image"
               [] OTHER -> "none"
    IN IF a \in mixins(viewset) THEN a ELSE "none"

\* router.register(...) of urls.py: the viewsets that have URLs; a request
\* for any other path is answered 404 by the URL resolver, before any view
router_registry == {"genres", "actors", "theatre_halls", "plays", "performance"}

\* the routes a viewset class provides
route_exists(viewset, route) == \E m \in Methods : action_map(viewset, route, m) # "none"

\* request payloads tried
HallPayload == [rows |-> 1, seats_in_row |-> 2]
PlayPayloads == {[title |-> <<"a">>, actors |-> {}, genres |-> {}],
                 [title |-> <<"b">>, actors |-> {1}, genres |-> {}]}
Pks == {1, 2}

Payloads(viewset) ==
    CASE viewset \in {"genres", "actors"} -> {[valid |-> b] : b \in BOOLEAN}
      [] viewset = "theatre_halls" -> {[valid |-> b, hall |-> HallPayload] : b \in BOOLEAN}
      [] viewset = "plays" -> {[valid |-> b, play |-> pp] : b \in BOOLEAN, pp \in PlayPayloads}
      [] viewset = "performance" ->
            {[valid |-> b, play |-> 1, theatre_hall |-> h] : b \in BOOLEAN, h \in Pks}
      [] viewset = "reservations" -> {[valid |-> b] : b \in BOOLEAN}

\* rows stored, all tables together (a reservation and its tickets as one)
TotalRows ==
    Cardinality(catalog["genres"]) + Cardinality(catalog["actors"]) + Cardinality(DOMAIN plays)
      + Cardinality(DOMAIN theatre_halls) + Cardinality(DOMAIN performances)
      + Cardinality(reservations)

\* rows of the initial state
FixtureRows ==
    Cardinality(DOMAIN FixturePlays) + Cardinality(DOMAIN FixtureHalls)
      + Cardinality(DOMAIN FixturePerformances)

\* the ids of the rows behind a viewset
Ids(viewset) ==
    CASE viewset \in {"genres", "actors"} -> catalog[viewset]
      [] viewset = "plays" -> DOMAIN plays
      [] viewset = "theatre_halls" -> DOMAIN theatre_halls
      [] viewset = "performance" -> DOMAIN performances
      [] viewset = "reservations" -> {r.id : r \in reservations}

\* the id the database gives the next row of a table
NextId(ids) == IF ids = {} THEN 1 ELSE 1 + CHOOSE n \in ids : \A m \in ids : m <= n

\* serializer.is_valid of the catalog serializers: the fields are well formed
\* and the related rows exist
serializer_is_valid(viewset, payload) ==
    /\ payload.valid
    /\ viewset = "plays" =>
          payload.play.actors \subseteq catalog["actors"] /\ payload.play.genres \subseteq catalog["genres"]
    /\ viewset = "performance" =>
          payload.play \in DOMAIN plays /\ payload.theatre_hall \in DOMAIN theatre_halls

\* a function without the row of key pk
Without(f, pk) == [x \in DOMAIN f \ {pk} |-> f[x]]

\* the response to the request echoed in `echo`
Reply(echo, status, data) == response' = [echo EXCEPT !.status = status, !.data = data]

\* CreateModelMixin.create of a catalog viewset
create(viewset, payload, echo) ==
    LET id == NextId(Ids(viewset))
    IN IF ~serializer_is_valid(viewset, payload)
       THEN /\ Reply(echo, 400, {})
            /\ UNCHANGED <<catalog, plays, theatre_halls, performances>>
       ELSE /\ Reply(echo, 201, {<<viewset, id>>})
            /\ catalog' = IF viewset \in {"genres", "actors"}
                          THEN [catalog EXCEPT ![viewset] = @ \cup {id}] ELSE catalog
            /\ plays' = IF viewset = "plays"
                        THEN (id :> [title |-> payload.play.title, actors |-> payload.play.actors,
                                     genres |-> payload.play.genres, image |-> FALSE]) @@ plays
                        ELSE plays
            /\ theatre_halls' = IF viewset = "theatre_halls"
                                THEN (id :> payload.hall) @@ theatre_halls ELSE theatre_halls
            /\ performances' = IF viewset = "performance"
                               THEN (id :> [play |-> payload.play, theatre_hall |-> payload.theatre_hall])
                                      @@ performances
                               ELSE performances

\* PlayViewSet.upload_image
upload_image(pk, payload, echo) ==
    IF pk \notin DOMAIN plays THEN Reply(echo, 404, {}) /\ UNCHANGED plays
    ELSE IF payload.valid
    THEN /\ plays' = [plays EXCEPT ![pk].image = TRUE]
         /\ Reply(echo, 200, {<<"plays", pk>>})
    ELSE Reply(echo, 400, {}) /\ UNCHANGED plays

\* PerformanceViewSet update (ModelViewSet)
update(pk, payload, echo) ==
    IF pk \notin DOMAIN performances THEN Reply(echo, 404, {}) /\ UNCHANGED performances
    ELSE IF serializer_is_valid("performance", payload)
    THEN /\ performances' = [performances EXCEPT
                               ![pk] = [play |-> payload.play, theatre_hall |-> payload.theatre_hall]]
         /\ Reply(echo, 200, {<<"performance", pk>>})
    ELSE Reply(echo, 400, {}) /\ UNCHANGED performances

\* PerformanceViewSet destroy (ModelViewSet); Ticket.performance is
\* on_delete=CASCADE
destroy(pk, echo) ==
    IF pk \notin DOMAIN performances
    THEN Reply(echo, 404, {}) /\ UNCHANGED <<performances, tickets>>
    ELSE /\ performances' = Without(performances, pk)
         /\ tickets' = {t \in tickets : t.performance # pk}
         /\ Reply(echo, 204, {})

\* one HTTP request for a route of a viewset: the URL is resolved, then
\* APIView.dispatch runs authentication and the permission check, then the
\* action's handler
Request(cred, viewset, route, method, pk, payload) ==
    LET auth == authenticate(cred)
        action == action_map(viewset, route, method)
        allowed == has_permission(get_permissions(viewset, route), auth.user, method)
        echo == [cred |-> cred, viewset |-> viewset, route |-> route, method |-> method,
                 pk |-> IF route = "list" THEN 0 ELSE pk,
                 valid |-> method \in {"POST", "PUT"} /\ payload.valid,
                 status |-> 0, data |-> {}]
        tables == <<catalog, plays, theatre_halls, performances, reservations, tickets,
                    nextReservationId>>
    IN /\ response = NoRequest /\ last = NoLast
       /\ route_exists(viewset, route)
       /\ action = "create" => TotalRows < FixtureRows + MaxNewRows
       /\ IF viewset \notin router_registry
          THEN Reply(echo, 404, {}) /\ UNCHANGED tables
          ELSE IF auth.exc # "none"
          THEN Reply(echo, 401, {}) /\ UNCHANGED tables
          ELSE IF ~allowed
          THEN Reply(echo, IF auth.user = AnonymousUser THEN 401 ELSE 403, {}) /\ UNCHANGED tables
          ELSE IF action = "none"
          THEN Reply(echo, 405, {}) /\ UNCHANGED tables
          ELSE IF action = "list"
          THEN Reply(echo, 200, {<<viewset, id>> : id \in Ids(viewset)}) /\ UNCHANGED tables
          ELSE IF action = "retrieve"
          THEN /\ IF pk \in Ids(viewset) THEN Reply(echo, 200, {<<viewset, pk>>})
                  ELSE Reply(echo, 404, {})
               /\ UNCHANGED tables
          ELSE IF action = "create"
          THEN create(viewset, payload, echo) /\ UNCHANGED <<reservations, tickets, nextReservationId>>
          ELSE IF action = "upload_image"
          THEN /\ upload_image(pk, payload, echo)
               /\ UNCHANGED <<catalog, theatre_halls, performances, reservations, tickets,
                              nextReservationId>>
          ELSE IF action = "update"
          THEN /\ update(pk, payload, echo)
               /\ UNCHANGED <<catalog, plays, theatre_halls, reservations, tickets, nextReservationId>>
          ELSE /\ destroy(pk, echo)
               /\ UNCHANGED <<catalog, plays, theatre_halls, reservations, nextReservationId>>
       /\ UNCHANGED <<worker, last, listing>>

NextAccess ==
    \/ \E cred \in Credentials, viewset \in ViewSets, route \in Routes, method \in Methods,
          pk \in Pks :
           \E payload \in Payloads(viewset) : Request(cred, viewset, route, method, pk, payload)
    \/ Forget

\* HTTP requests, one after the other
SpecAccess == Init /\ [][NextAccess]_vars

(***************************************************************************)
(* The play listing and its filters (PlayViewSet.get_queryset)             *)
(***************************************************************************)
\* str.lower on the letters used
lower(c) == CASE c = "A" -> "a" [] c = "B" -> "b" [] OTHER -> c

\* mutant: title__contains, letter case kept
contains(hay, needle) ==
    \E i \in 0..(Len(hay) - Len(needle)) : \A j \in 1..Len(needle) : hay[i + j] = needle[j]

\* title__icontains: needle is a substring of hay, letter case ignored
icontains(hay, needle) ==
    \E i \in 0..(Len(hay) - Len(needle)) :
        \A j \in 1..Len(needle) : lower(hay[i + j]) = lower(needle[j])

\* int(str_id): the tokens that are decimal numbers
int(str_id) == CASE str_id = "1" -> 1 [] str_id = "2" -> 2 [] str_id = "3" -> 3 [] OTHER -> -1

\* PlayViewSet._params_to_ints, on the tokens of qs.split(","): the list of
\* integers, or ValueError when a token is not a number
_params_to_ints(qs) ==
    IF \E k \in 1..Len(qs) : int(qs[k]) = -1
    THEN [exc |-> "ValueError", ids |-> <<>>]
    ELSE [exc |-> "none", ids |-> [k \in 1..Len(qs) |-> int(qs[k])]]

\* the values of a list, as the set an SQL IN (...) tests against
Range(seq) == {seq[k] : k \in 1..Len(seq)}

\* the rows of the query for one play: filter(actors__id__in=...) joins the
\* play to its actor links and keeps one row per link in the list, and
\* filter(genres__id__in=...) does the same with a join of its own
joined_rows(play, title, actors, actor_ids, genres, genre_ids) ==
    (IF title # <<>> /\ ~icontains(play.title, title) THEN 0 ELSE 1)
      * (IF actors # <<>> THEN Cardinality(play.actors \cap Range(actor_ids)) ELSE 1)
      * (IF genres # <<>> THEN Cardinality(play.genres \cap Range(genre_ids)) ELSE 1)

\* PlayViewSet.get_queryset: whether the queryset returned for the action is
\* .distinct()
PlayViewSet_distinct(action) == action \notin {"list", "retrieve"}

\* PlayViewSet.get_queryset: the plays selected, each with the number of rows
\* it has in the result (a bag), or the exception raised
PlayViewSet_get_queryset(action, title, actors, genres) ==
    LET a == IF actors # <<>> THEN _params_to_ints(actors) ELSE [exc |-> "none", ids |-> <<>>]
        g == IF genres # <<>> THEN _params_to_ints(genres) ELSE [exc |-> "none", ids |-> <<>>]
        n(id) == joined_rows(plays[id], title, actors, a.ids, genres, g.ids)
        hit == {id \in DOMAIN plays : n(id) > 0}
    IN IF a.exc # "none" \/ g.exc # "none"
       THEN [exc |-> "ValueError", rows |-> <<>>]
       ELSE [exc |-> "none",
             rows |-> [id \in hit |-> IF PlayViewSet_distinct(action) THEN 1 ELSE n(id)]]

\* the plays and the queries tried
PlayTitles == {<<"A">>, <<"a", "b">>}
PlayRows ==
    {[title |-> t, actors |-> a, genres |-> g, image |-> FALSE] :
        t \in PlayTitles, a \in {{}, {1}, {1, 2}}, g \in {{}, {1}, {1, 2}}}
TitleQueries == {<<>>, <<"a">>, <<"B">>, <<"b", "a">>}
IdQueries == {<<>>, <<"1">>, <<"1", "2">>, <<"2", "2">>, <<"3">>, <<"x">>}

\* GET /plays/ with the query parameters title, actors and genres (absent or
\* empty: <<>>): ListModelMixin.list over get_queryset
PlayList(title, actors, genres) ==
    /\ listing = NoListing
    /\ LET q == PlayViewSet_get_queryset("list", title, actors, genres)
       IN listing' = [title |-> title, actors |-> actors, genres |-> genres,
                      status |-> IF q.exc = "none" THEN 200 ELSE 500, rows |-> q.rows]
    /\ UNCHANGED <<theatre_halls, performances, reservations, tickets, nextReservationId, worker,
                   last, catalog, response, plays>>

\* any table of up to MaxPlays plays, with the actors and genres they name
InitPlays ==
    /\ theatre_halls = FixtureHalls
    /\ performances = FixturePerformances
    /\ reservations = {}
    /\ tickets = {}
    /\ nextReservationId = 1
    /\ worker = [w \in Workers |-> NoResponse]
    /\ last = NoLast
    /\ catalog = [v \in CatalogViewSets |-> IF v \in {"genres", "actors"} THEN {1, 2} ELSE {}]
    /\ response = NoRequest
    /\ plays \in UNION {[1..n -> PlayRows] : n \in 0..MaxPlays}
    /\ listing = NoListing

NextPlays ==
    \/ \E title \in TitleQueries, actors \in IdQueries, genres \in IdQueries :
          PlayList(title, actors, genres)
    \/ Forget

\* listings of a table of plays
SpecPlays == InitPlays /\ [][NextPlays]_vars

(***************************************************************************)
(* Reservations and the administrator's performance requests, one after    *)
(* the other                                                               *)
(***************************************************************************)
\* the reservation requests tried while the schedule changes
ScheduleRequests == {<<>>} \cup RaceRequests

NextSchedule ==
    \/ \E user \in Users, specs \in ScheduleRequests : ReservationCreate(user, specs)
    \/ \E route \in {"list", "detail"}, method \in Methods, pk \in Pks :
          \E payload \in Payloads("performance") :
              Request("admin", "performance", route, method, pk, payload)
    \/ Forget

SpecSchedule == Init /\ [][NextSchedule]_vars

Next ==
    \/ \E user \in Users, specs \in Requests : ReservationCreate(user, specs)
    \/ Forget

\* requests served one after the other
Spec == Init /\ [][Next]_vars

NextRace ==
    \/ \E w \in Workers, user \in Users, specs \in RaceRequests : Start(w, user, specs)
    \/ \E w \in Workers : Validate(w)
    \/ \E w \in Workers : Create(w)
    \/ \E w \in Workers : FullClean(w)
    \/ \E w \in Workers : Save(w)
    \/ \E w \in Workers : Deadlock(w)

\* requests served by concurrent worker processes
SpecRace == Init /\ [][NextRace]_vars

(***************************************************************************)
(* Claims                                                                  *)
(***************************************************************************)
SameSeat(t, s) == t.row = s.row /\ t.seat = s.seat /\ t.performance = s.performance

\* C1: a reservation request whose ticket list holds an invalid spec (out of
\* range, or its seat already taken: by a persisted ticket or by an earlier
\* ticket of the same list), at any position, is not answered with success
\* and leaves the persisted Reservation and Ticket rows exactly as they were.
C1_FailedReservationPersistsNothing ==
    [][(last' # last /\ (last'.bad # {} \/ last'.dup # {}))
         => (last'.status # 201 /\ reservations' = reservations /\ tickets' = tickets)]_vars

\* C1 witness: a rejected two-ticket request, first spec valid, second invalid,
\* with rows of an earlier reservation persisted
C1_Witness ==
    /\ last.len = 2 /\ last.bad = {2} /\ last.status = 400
    /\ reservations # {} /\ tickets # {}

\* C2: no two distinct persisted tickets have the same (row, seat,
\* performance), whatever the interleaving of the requests.
C2_UniqueSeatPerPerformance ==
    \A t1 \in tickets, t2 \in tickets : (t1 # t2) => ~SameSeat(t1, t2)

\* C2 witness: two tickets persisted and a request rejected as a duplicate by
\* the serializer's validation
C2_Witness ==
    /\ Cardinality(tickets) >= 2
    /\ \E w \in Workers : worker[w].pc = "idle" /\ worker[w].status = 400

\* C3: of two racing requests for the same seat, the one that fails leaves no
\* Reservation row and no Ticket row (its other seats included), and when it
\* failed on a seat a persisted reservation holds, exactly one persisted
\* ticket holds that seat, owned by another, persisted reservation.
C3_RaceLoserRollsBack ==
    \A w \in Workers :
        LET r == worker[w]
            held == {t \in tickets : SameSeat(t, r.spec)}
        IN (r.pc = "idle" /\ r.status \in {400, 500} /\ r.rid # 0) =>
              /\ ~\E x \in reservations : x.id = r.rid
              /\ ~\E t \in tickets : t.reservation = r.rid
              /\ (r.holders # {}) =>
                    /\ Cardinality(held) = 1
                    /\ \A t \in held : /\ t.reservation # r.rid
                                       /\ t.reservation \in r.holders
                                       /\ \E x \in reservations : x.id = t.reservation

\* C3 witness: a request that had written its first seat lost its second seat
\* at the INSERT to a request of the other worker, which committed
C3_Witness ==
    \E w \in Workers, v \in Workers :
        /\ w # v
        /\ worker[w].pc = "idle" /\ worker[w].exc = "IntegrityError" /\ worker[w].at = 2
        /\ worker[v].pc = "idle" /\ worker[v].status = 201
        /\ worker[v].rid \in worker[w].holders

\* C4: a one-ticket request creates its ticket iff 1 <= row <= hall.rows and
\* 1 <= seat <= rows * seats_in_row and no persisted ticket has the same
\* (row, seat, performance); otherwise it is rejected and creates nothing.
C4_TicketCreatedIffInRangeAndFree ==
    [][(last' # last /\ last'.len = 1) =>
        LET s == last'.single
            hall == theatre_halls[performances[s.performance].theatre_hall]
            ok == /\ 1 <= s.row /\ s.row <= hall.rows
                  /\ 1 <= s.seat /\ s.seat <= hall.rows * hall.seats_in_row
                  /\ ~\E t \in tickets : SameSeat(t, s)
        IN /\ (last'.status = 201) <=> ok
           /\ (\E t \in tickets' \ tickets : SameSeat(t, s)) <=> ok
           /\ ~ok => tickets' = tickets]_vars

\* C4 witness: a ticket was created for seat 2 of row 1 in the hall of 2 rows
\* of 1 seat (within rows * seats_in_row, beyond seats_in_row)
C4_Witness ==
    /\ last.len = 1 /\ last.status = 201
    /\ last.single.seat = 2
    /\ theatre_halls[performances[last.single.performance].theatre_hall].seats_in_row = 1

\* C5: a successful request with n >= 1 ticket specs adds exactly one
\* Reservation row, owned by the caller, and exactly n Ticket rows, one per
\* spec with its row, seat and performance, all of the new reservation; the
\* rows persisted before are unchanged.
C5_SuccessAddsOneReservationAndItsTickets ==
    [][(last' # last /\ last'.status = 201) =>
        LET specs == last'.created
            rid == last'.rid
            new == tickets' \ tickets
        IN /\ Len(specs) = last'.len /\ Len(specs) >= 1
           /\ ~\E r \in reservations : r.id = rid
           /\ reservations' = reservations \cup {[id |-> rid, user |-> last'.user]}
           /\ tickets \subseteq tickets'
           /\ Cardinality(new) = Len(specs)
           /\ \A t \in new : t.reservation = rid /\ \E k \in 1..Len(specs) : SameSeat(t, specs[k])
           /\ \A k \in 1..Len(specs) : \E t \in new : SameSeat(t, specs[k])]_vars

\* C5 witness: a two-ticket request succeeded with an earlier reservation
\* already persisted
C5_Witness ==
    /\ last.status = 201 /\ last.len = 2
    /\ Cardinality(reservations) = 2 /\ Cardinality(tickets) >= 3

\* C6: the availability listed for a performance is rows * seats_in_row of its
\* hall minus the number of tickets persisted for that performance.
C6_AvailabilityIsCapacityMinusSold ==
    \A p \in DOMAIN performances :
        LET hall == theatre_halls[performances[p].theatre_hall]
        IN ticket_available(p)
             = hall.rows * hall.seats_in_row - Cardinality({t \in tickets : t.performance = p})

\* C6 witness: a ticket persisted for each performance, leaving 1 seat of
\* performance 1 and none of performance 2, and the last request failed
C6_Witness ==
    /\ Cardinality({t \in tickets : t.performance = 1}) = 1
    /\ Cardinality({t \in tickets : t.performance = 2}) = 1
    /\ ticket_available(1) = 1 /\ ticket_available(2) = 0
    /\ last.status \in {400, 500}

\* C7: the reservation list returned to a user holds exactly the reservations
\* that user owns, each with tickets of that reservation only.
C7_UserListsOnlyOwnReservations ==
    \A u \in Users :
        /\ {e.id : e \in reservation_list(u)} = {r.id : r \in {x \in reservations : x.user = u}}
        /\ \A e \in reservation_list(u) : \A t \in e.tickets :
              \E r \in reservations : r.id = t.reservation /\ r.id = e.id /\ r.user = u

\* C7 witness: two users each own a persisted reservation
C7_Witness ==
    \E r1 \in reservations, r2 \in reservations : r1.user # r2.user

\* every stored row
stored == <<catalog, plays, theatre_halls, performances, reservations, tickets>>

\* the step serves a request, answered in response'
Served == response = NoRequest /\ response' # NoRequest

\* C8: every request made without a valid credential to an endpoint of the
\* genres, actors, theatre halls, plays, performances or reservations viewset
\* is answered 401 (authentication required), returns no data and changes no
\* stored row.
C8_NoCredentialIsAuthenticationRequired ==
    [][(Served /\ response'.cred \in {"none", "invalid"}) =>
          /\ response'.status = 401
          /\ response'.data = {}
          /\ UNCHANGED stored]_vars

\* the same on the viewsets urls.py registers (holds)
C8_OnRegisteredViewSets ==
    [][(Served /\ response'.cred \in {"none", "invalid"} /\ response'.viewset \in router_registry) =>
          /\ response'.status = 401
          /\ response'.data = {}
          /\ UNCHANGED stored]_vars

\* the request answered in response' creates or modifies a catalog entity
\* and comes from an authenticated caller
CatalogWrite ==
    /\ Served
    /\ response'.viewset \in CatalogViewSets
    /\ response'.method \notin SAFE_METHODS
    /\ response'.cred \in {"alice", "admin"}

Success == {200, 201, 204}

\* C9 as stated: a create or modify request on a catalog entity succeeds if
\* and only if the authenticated caller is an administrator, and from a
\* non-admin caller it is answered 403 and changes no row.
C9_WriteSucceedsIffAdmin ==
    [][CatalogWrite =>
          /\ response'.status \in Success <=> is_staff(response'.cred)
          /\ ~is_staff(response'.cred) => response'.status = 403 /\ UNCHANGED stored]_vars

\* C9 amended: a create or modify request on a catalog entity succeeds only
\* if the authenticated caller is an administrator; an administrator's request
\* succeeds unless it is answered 400 (invalid payload), 404 (no such row) or
\* 405 (method not allowed), which change no row, and a valid create of a
\* genre, actor or hall always succeeds; from an authenticated non-admin caller
\* the request is answered 403, returns no data and changes no row.
C9_WriteNeedsAdminAndValidRequest ==
    [][CatalogWrite =>
          /\ response'.status \in Success => is_staff(response'.cred)
          /\ ~is_staff(response'.cred) =>
                response'.status = 403 /\ response'.data = {} /\ UNCHANGED stored
          /\ is_staff(response'.cred) =>
                /\ response'.status \in Success \cup {400, 404, 405}
                /\ response'.status \notin Success => UNCHANGED stored
                /\ (/\ response'.viewset \in {"genres", "actors", "theatre_halls"}
                    /\ response'.method = "POST"
                    /\ response'.valid) => response'.status = 201 /\ stored' # stored]_vars

\* C9 witness: after an administrator has created a genre, a non-admin caller's
\* image upload for an existing play has been answered 403
C9_Witness ==
    /\ catalog["genres"] # {}
    /\ response.cred = "alice" /\ response.viewset = "plays" /\ response.route = "upload-image"
    /\ response.method = "POST" /\ response.valid /\ response.pk \in DOMAIN plays
    /\ response.status = 403
    /\ \A id \in DOMAIN plays : ~plays[id].image

\* C10: when an actor-id or genre-id filter is applied, every play of the
\* listing appears in it exactly once, also a play associated with two or more
\* of the requested actors or genres.
C10_PlayListedOnce ==
    (listing.status = 200 /\ (listing.actors # <<>> \/ listing.genres # <<>>)) =>
        \A id \in DOMAIN listing.rows : listing.rows[id] = 1

\* the ids a listing's actors or genres parameter names
Requested(param) == {int(param[k]) : k \in 1..Len(param)}

\* a title with every letter in lower case
Folded(title) == [k \in 1..Len(title) |-> lower(title[k])]

\* the play satisfies every filter the listing request supplied
Satisfies(play, q) ==
    /\ q.title # <<>> =>
          \E i \in 1..Len(play.title) :
              /\ i + Len(q.title) - 1 <= Len(play.title)
              /\ SubSeq(Folded(play.title), i, i + Len(q.title) - 1) = Folded(q.title)
    /\ q.actors # <<>> => \E a \in Requested(q.actors) : a \in play.actors
    /\ q.genres # <<>> => \E g \in Requested(q.genres) : g \in play.genres

\* C11: the play listing contains a play if and only if the play satisfies
\* every supplied filter: its title contains the given text, letter case
\* ignored; it has at least one of the listed actor ids; it has at least one
\* of the listed genre ids.
C11_ListedIffEveryFilterSatisfied ==
    listing.status = 200 =>
        \A id \in DOMAIN plays : (id \in DOMAIN listing.rows) <=> Satisfies(plays[id], listing)

\* C11 witness: a listing with the three filters supplied, the title in another
\* letter case than the play's, that kept one play and left one out
C11_Witness ==
    /\ listing.status = 200
    /\ listing.title = <<"B">> /\ Len(listing.actors) = 2 /\ listing.genres # <<>>
    /\ \E id \in DOMAIN plays : id \in DOMAIN listing.rows /\ plays[id].title = <<"a", "b">>
    /\ \E id \in DOMAIN plays : id \notin DOMAIN listing.rows /\ plays[id].actors = {}

\* C12: a reservation request rejected because one of its tickets has the
\* (row, seat, performance) of a ticket that exists already, persisted by an
\* earlier reservation or written earlier by the same request, is answered
\* with a validation error (400), never with an unhandled error (500).
C12_DuplicateIsValidationError ==
    [][(/\ last' # last
        /\ last'.status \notin {0, 201}
        /\ \/ last'.dup # {}
           \/ \E t \in tickets : SameSeat(t, last'.single))
         => last'.status = 400]_vars

\* C13: for every performance the number of persisted tickets is at most
\* rows * seats_in_row of its hall, so the availability listed for it is never
\* negative.
C13_SoldWithinHallSize ==
    \A p \in DOMAIN performances :
        LET hall == theatre_halls[performances[p].theatre_hall]
        IN /\ Cardinality({t \in tickets : t.performance = p}) <= hall.rows * hall.seats_in_row
           /\ ticket_available(p) >= 0

\* C14: every persisted ticket has 1 <= row <= rows and 1 <= seat <= capacity
\* of the hall its performance points to now, also after a performance was
\* updated to another hall.
C14_TicketsWithinCurrentHall ==
    \A t \in tickets :
        /\ t.performance \in DOMAIN performances
        /\ LET hall == theatre_halls[performances[t.performance].theatre_hall]
           IN /\ 1 <= t.row /\ t.row <= hall.rows
              /\ 1 <= t.seat /\ t.seat <= hall.rows * hall.seats_in_row

\* C15: every persisted Reservation has at least one Ticket, also after a
\* performance and, by the cascade, its tickets were deleted.
C15_ReservationHasTicket ==
    \A r \in reservations : \E t \in tickets : t.reservation = r.id

====
